---------------------------- MODULE Spec2Model ----------------------------
(***************************************************************************)
(* A model of improved_sarimax_model.py: the feature builder               *)
(* (load_and_preprocess_data), the feature selector                        *)
(* (feature_selection_analysis), the trainer (advanced_sarimax_tuning),    *)
(* the ensemble (ensemble_forecast), the cross-validator                   *)
(* (cross_validation_sarimax) and the parts of main that connect them.     *)
(*                                                                         *)
(* Each function is one state machine over its own variables; a            *)
(* specification (SpecBuild, SpecSelect, SpecTune, SpecEnsemble, SpecCV)   *)
(* starts one of them on inputs drawn from bounded sets and leaves the     *)
(* variables of the others at their idle values.                           *)
(*                                                                         *)
(* Numbers.  Column values are integers.  A fraction is kept as an exact   *)
(* numerator over a stated denominator: a rolling mean as the window sum   *)
(* (denominator 24), a rolling standard deviation as n*sum(x^2)-sum(x)^2   *)
(* (which is n*(n-1) times its square), an ensemble value as a numerator   *)
(* over 10 * len(forecasts).  NaN is a value of its own that every         *)
(* arithmetic operation propagates.                                        *)
(***************************************************************************)
EXTENDS Integers, Sequences, FiniteSets, TLC

VARIABLES
    pc,                 \* position of the function under execution
    raw, alt,           \* load_and_preprocess_data: the table read, and a second table for a second run
    df, dfAlt,          \* its result on raw and on alt
    train, test,        \* main: the 80/20 split of df
    columns, scores,    \* feature_selection_analysis: train_data.columns and the three scores of each column
    selected_features,  \* its first result
    rankings,           \* its other results: mi_df, target_corr, f_df
    exog_columns,       \* main: the columns of train[selected_features]
    fits, tuned,        \* advanced_sarimax_tuning: what each fit does, and the models fitted so far
    models, n_periods,  \* ensemble_forecast: its arguments
    i_model, forecasts, \* its loop index and the forecasts collected
    result,             \* what a call returned (or that it raised)
    data, n_splits,     \* cross_validation_sarimax: the table and the number of splits
    k_fold, cv_scores,  \* its loop index (the folds completed) and the scores collected
    fold_log            \* what the fit and the forecast of each fold entered did, in order

vars == << pc, raw, alt, df, dfAlt, train, test, columns, scores, selected_features,
           rankings, exog_columns, fits, tuned, models, n_periods, i_model, forecasts,
           result, data, n_splits, k_fold, cv_scores, fold_log >>

buildVars == << raw, alt, df, dfAlt, train, test >>
selectVars == << columns, scores, selected_features, rankings, exog_columns >>
tuneVars == << fits, tuned >>
ensembleVars == << models, n_periods, i_model, forecasts >>
cvVars == << data, n_splits, k_fold, cv_scores, fold_log >>

\* A missing value (numpy.nan): what shift and rolling leave where history is short.
NaN == -1000000

IsNaN(x) == x = NaN

\* The value a variable has while its function is not running.
Idle == << >>

\* What a call has returned: nothing yet, None, an exception, or a value.
Running == [kind |-> "running"]
None == [kind |-> "None"]
Raised == [kind |-> "raised"]

-----------------------------------------------------------------------------
(* Dates.                                                                  *)

\* Days from 1970-01-01 to the civil date y-m-d.
DaysFromCivil(y, m, d) ==
    LET yy == IF m <= 2 THEN y - 1 ELSE y
        era == yy \div 400
        yoe == yy - era * 400
        mp == (m + 9) % 12
        doy == (153 * mp + 2) \div 5 + d - 1
        doe == yoe * 365 + yoe \div 4 - yoe \div 100 + doy
    IN  era * 146097 + doe - 719468

\* pd.to_datetime(str(int(date)), format='%Y%m%d'): a timestamp at midnight of
\* that day. The format carries no hour, so the hour of every timestamp is 0.
to_datetime(date) ==
    [ ordinal |-> DaysFromCivil(date \div 10000, (date \div 100) % 100, date % 100),
      month |-> (date \div 100) % 100,
      hour |-> 0 ]

\* '2015-01-01' and '2016-12-31' as timestamps.
WindowStart == to_datetime(20150101)
WindowEnd == to_datetime(20161231)

\* Timestamp order.
TsLess(a, b) ==
    \/ a.ordinal < b.ordinal
    \/ a.ordinal = b.ordinal /\ a.hour < b.hour

TsLeq(a, b) == ~TsLess(b, a)

-----------------------------------------------------------------------------
(* Arithmetic with NaN.                                                     *)

Mul(x, y) == IF IsNaN(x) \/ IsNaN(y) THEN NaN ELSE x * y

\* sin(2*pi*k/12) and cos(2*pi*k/12), times 1000, for k in 0..12.
Sin12(k) == << 0, 500, 866, 1000, 866, 500, 0, -500, -866, -1000, -866, -500, 0 >>[k + 1]
Cos12(k) == << 1000, 866, 500, 0, -500, -866, -1000, -866, -500, 0, 500, 866, 1000 >>[k + 1]

\* sin(2*pi*h/24) and cos(2*pi*h/24), times 1000, for the even hours (Sin12 of
\* h/2) and for the odd hours.
Sin24(h) ==
    IF h % 2 = 0 THEN Sin12(h \div 2)
    ELSE << 259, 707, 966, 966, 707, 259, -259, -707, -966, -966, -707, -259 >>[(h + 1) \div 2]
Cos24(h) ==
    IF h % 2 = 0 THEN Cos12(h \div 2)
    ELSE << 966, 707, 259, -259, -707, -966, -966, -707, -259, 259, 707, 966 >>[(h + 1) \div 2]

-----------------------------------------------------------------------------
(* load_and_preprocess_data.                                               *)

\* The offsets of the three lags and the size of the rolling window.
Lag1 == 1
Lag24 == 24
Lag168 == 168
Window == 24

\* A shift that is one row short: row t holds the value of row t - k + 1.
ShiftOneShort(series, k) ==
    [t \in 1..Len(series) |-> IF t <= k - 1 THEN NaN ELSE series[t - k + 1]]

\* series.shift(k): row t holds the value of row t - k, the first k rows NaN.
Shift(series, k) ==
    [t \in 1..Len(series) |-> IF t <= k THEN NaN ELSE series[t - k]]

RECURSIVE SumOver(_, _, _)
\* series[lo] + ... + series[hi]
SumOver(series, lo, hi) ==
    IF lo > hi THEN 0 ELSE series[hi] + SumOver(series, lo, hi - 1)

\* Whether rolling(window=w) has a value at row t: the w rows t-w+1 .. t exist
\* and none is NaN (min_periods defaults to the window size).
WindowFull(series, t, w) ==
    /\ t >= w
    /\ \A s \in (t - w + 1)..t : ~IsNaN(series[s])

\* series.rolling(window=w).mean(), as the window's sum (the mean times w): the
\* window of row t is the rows t-w+1 .. t, row t included.
RollingMean(series, w) ==
    [t \in 1..Len(series) |->
        IF WindowFull(series, t, w) THEN SumOver(series, t - w + 1, t) ELSE NaN]

\* series.rolling(window=w).std(), as w*sum(x^2) - sum(x)^2 over the same window
\* (w*(w-1) times the square of the sample standard deviation).
RollingStd(series, w) ==
    LET squares == [u \in 1..Len(series) |-> Mul(series[u], series[u])]
    IN  [t \in 1..Len(series) |->
            IF WindowFull(series, t, w)
            THEN LET s == SumOver(series, t - w + 1, t)
                     sq == SumOver(squares, t - w + 1, t)
                 IN  w * sq - s * s
            ELSE NaN]

\* The columns of the input file that the code reads; "date" becomes the index.
RawColumns == << "Temperature", "humidity", "wind speed", "irradiance" >>

\* The columns of the engineered table, in the order the code adds them.
CalendarColumns ==
    << "hour", "day_of_week", "month", "season", "is_weekend",
       "hour_sin", "hour_cos", "month_sin", "month_cos" >>
InteractionColumns == << "temp_humidity", "temp_wind", "humidity_wind" >>
LagColumns == << "irradiance_lag1", "irradiance_lag24", "irradiance_lag168" >>
RollingColumns == << "irradiance_rolling_mean_24h", "irradiance_rolling_std_24h" >>
EngineeredColumns ==
    RawColumns \o CalendarColumns \o InteractionColumns \o LagColumns \o RollingColumns

Range(seq) == {seq[j] : j \in 1..Len(seq)}

\* Lines 18-19: the date column parsed and made the index.
SetIndex(table) ==
    [t \in 1..Len(table) |->
        [c \in Range(RawColumns) |-> table[t][c]] @@ ("date" :> to_datetime(table[t]["date"]))]

\* Line 22: the rows whose index lies in the date window, in order.
FilterDateRange(table) ==
    SelectSeq(table, LAMBDA r : TsLeq(WindowStart, r["date"]) /\ TsLeq(r["date"], WindowEnd))

\* Lines 25-49: the derived columns, added to every row.
AddFeatures(table) ==
    LET irr == [t \in 1..Len(table) |-> table[t]["irradiance"]]
        lag1 == Shift(irr, Lag1)
        lag24 == Shift(irr, Lag24)
        lag168 == Shift(irr, Lag168)
        mean24 == RollingMean(irr, Window)
        std24 == RollingStd(irr, Window)
    IN  [t \in 1..Len(table) |->
            LET r == table[t]
                hour == r["date"].hour
                dow == (r["date"].ordinal + 3) % 7
                month == r["date"].month
            IN  r @@
                [ hour |-> hour,
                  day_of_week |-> dow,
                  month |-> month,
                  season |-> (month % 12) \div 3 + 1,
                  is_weekend |-> IF dow \in {5, 6} THEN 1 ELSE 0,
                  hour_sin |-> Sin24(hour),
                  hour_cos |-> Cos24(hour),
                  month_sin |-> Sin12(month),
                  month_cos |-> Cos12(month),
                  temp_humidity |-> Mul(r["Temperature"], r["humidity"]),
                  temp_wind |-> Mul(r["Temperature"], r["wind speed"]),
                  humidity_wind |-> Mul(r["humidity"], r["wind speed"]),
                  irradiance_lag1 |-> lag1[t],
                  irradiance_lag24 |-> lag24[t],
                  irradiance_lag168 |-> lag168[t],
                  irradiance_rolling_mean_24h |-> mean24[t],
                  irradiance_rolling_std_24h |-> std24[t] ]]

\* Line 52: df.dropna(): the rows with no NaN in any column, in order.
DropNa(table) ==
    SelectSeq(table, LAMBDA r : \A c \in Range(EngineeredColumns) : ~IsNaN(r[c]))

\* The table before line 52.
Engineered(table) == AddFeatures(FilterDateRange(SetIndex(table)))

load_and_preprocess_data(table) == DropNa(Engineered(table))

-----------------------------------------------------------------------------
(* main, lines 214-216: the split.                                         *)

\* int(len(df) * 0.8)
TrainSize(table) == (Len(table) * 8) \div 10

SplitTrain(table) == SubSeq(table, 1, TrainSize(table))
SplitTest(table) == SubSeq(table, TrainSize(table) + 1, Len(table))

-----------------------------------------------------------------------------
(* The input files.                                                        *)

\* The largest number of rows of an input file.
MaxRows == 200

\* The numbers of rows tried: none, fewer than a window, around the longest
\* lag, and more.
RowCounts == {0, 23, 24, 167, 168, 169, 192, MaxRows}

\* Rows per calendar day: a daily file and an hourly file.
RowsPerDay == {1, 24}

\* First dates: before the window, at its start, before a leap day, near its end.
StartDates == {20141231, 20150101, 20160222, 20161224}

\* The 8-digit date of the day z days after 1970-01-01.
CivilFromDays(z) ==
    LET zz == z + 719468
        era == zz \div 146097
        doe == zz - era * 146097
        yoe == (doe - doe \div 1460 + doe \div 36524 - doe \div 146096) \div 365
        doy == doe - (365 * yoe + yoe \div 4 - yoe \div 100)
        mp == (5 * doy + 2) \div 153
        d == doy - (153 * mp + 2) \div 5 + 1
        m == IF mp < 10 THEN mp + 3 ELSE mp - 9
        y == yoe + era * 400 + (IF m <= 2 THEN 1 ELSE 0)
    IN  y * 10000 + m * 100 + d

\* The dates of n rows from date start on, rpd rows a day.
DatesFrom(start, n, rpd) ==
    LET first == DaysFromCivil(start \div 10000, (start \div 100) % 100, start % 100)
    IN  [t \in 1..n |-> CivilFromDays(first + (t - 1) \div rpd)]

\* An input file of n rows with no missing value.
InputTable(start, n, rpd) ==
    LET dates == DatesFrom(start, n, rpd)
    IN  [t \in 1..n |->
            ("date" :> dates[t]) @@ ("Temperature" :> 20 + (t % 5)) @@ ("humidity" :> 50 + (t % 3))
            @@ ("wind speed" :> (t * 3) % 4) @@ ("irradiance" :> (t * 7) % 11)]

\* The table with the value of column c at row p replaced by v.
WithCell(table, p, c, v) ==
    IF p \in 1..Len(table)
    THEN [table EXCEPT ![p] = [table[p] EXCEPT ![c] = v]]
    ELSE table

\* The input files: a clean table, or one with a missing value in one cell.
InputTables ==
    { WithCell(InputTable(start, n, rpd), n - missing[1], missing[2], NaN) :
        start \in StartDates, n \in RowCounts, rpd \in RowsPerDay,
        missing \in { << -1, "irradiance" >>, << 5, "irradiance" >>, << 2, "humidity" >> } }

\* A second input file: the first with one value changed, at row p.
Changed(table, p, c) == WithCell(table, p, c, IF IsNaN(table[p][c]) THEN 0 ELSE table[p][c] + 1)

-----------------------------------------------------------------------------
(* The feature builder as a state machine: load_and_preprocess_data runs   *)
(* on raw and, for comparison, on alt; main then splits the result.        *)

IdleBuild == raw = Idle /\ alt = Idle /\ df = Idle /\ dfAlt = Idle /\ train = Idle /\ test = Idle
IdleSelect ==
    /\ columns = Idle /\ scores = Idle /\ selected_features = Idle
    /\ rankings = Idle /\ exog_columns = Idle
IdleTune == fits = Idle /\ tuned = Idle
IdleEnsemble == models = Idle /\ n_periods = 0 /\ i_model = 0 /\ forecasts = Idle
IdleCV == data = Idle /\ n_splits = 0 /\ k_fold = 0 /\ cv_scores = Idle /\ fold_log = Idle

InitBuild ==
    /\ pc = "load"
    /\ raw \in InputTables
    /\ \E back \in {0, 1}, c \in {"irradiance", "Temperature"} :
          alt = Changed(raw, Len(raw) - back, c)
    /\ df = Idle /\ dfAlt = Idle /\ train = Idle /\ test = Idle
    /\ result = Running
    /\ IdleSelect /\ IdleTune /\ IdleEnsemble /\ IdleCV

LoadAndPreprocess ==
    /\ pc = "load"
    /\ df' = load_and_preprocess_data(raw)
    /\ dfAlt' = load_and_preprocess_data(alt)
    /\ pc' = "split"
    /\ UNCHANGED << raw, alt, train, test, result >>
    /\ UNCHANGED << selectVars, tuneVars, ensembleVars, cvVars >>

Split ==
    /\ pc = "split"
    /\ train' = SplitTrain(df)
    /\ test' = SplitTest(df)
    /\ pc' = "select"
    /\ UNCHANGED << raw, alt, df, dfAlt, result >>
    /\ UNCHANGED << selectVars, tuneVars, ensembleVars, cvVars >>

NextBuild == LoadAndPreprocess \/ Split

SpecBuild == InitBuild /\ [][NextBuild]_vars

-----------------------------------------------------------------------------
(* Properties of the feature builder.                                      *)

NoMissingRaw(table) ==
    \A t \in 1..Len(table) : \A c \in Range(RawColumns) : ~IsNaN(table[t][c])

InDateWindow(table) ==
    \A t \in 1..Len(table) :
        /\ TsLeq(WindowStart, to_datetime(table[t]["date"]))
        /\ TsLeq(to_datetime(table[t]["date"]), WindowEnd)

Max(S) == CHOOSE x \in S : \A y \in S : y <= x

\* max(lag offsets {1, 24, 168}, window size 24)
LongestReach == Max({Lag1, Lag24, Lag168, Window})

\* The index and the raw columns of an engineered table.
RawPart(table) ==
    [t \in 1..Len(table) |-> [c \in Range(RawColumns) \cup {"date"} |-> table[t][c]]]

DerivedColumns == CalendarColumns \o InteractionColumns \o LagColumns \o RollingColumns

\* Whether row t of an engineered table survives dropna.
Complete(row) == \A c \in Range(EngineeredColumns) : ~IsNaN(row[c])

\* C4: the engineered table is leakage-safe. For two input tables with the same
\* dates that agree on every row before row t, every derived column (calendar,
\* cyclical, interaction, lag, rolling) of an output row t is the same in both
\* results: no derived value at row t depends on a raw value at a row >= t.
C4_LeakageSafe ==
    pc # "load" =>
        LET a == Engineered(raw)
            b == Engineered(alt)
            changed == {s \in 1..Len(a) : \E c \in Range(RawColumns) : a[s][c] # b[s][c]}
            sameDates == Len(a) = Len(b) /\ \A s \in 1..Len(a) : a[s]["date"] = b[s]["date"]
        IN  sameDates =>
                \A t \in 1..Len(a) :
                    (Complete(a[t]) /\ Complete(b[t]) /\ \A s \in changed : s >= t)
                    => \A c \in Range(DerivedColumns) : a[t][c] = b[t][c]

\* C8: for an input table of N rows inside the date window with no missing raw
\* value, the result is the input rows from position 168 (counted from 0) on, in
\* order: N - 168 rows, none when N <= 168. And no row of any result has a
\* missing value in a lag or rolling column.
C8_DropsExactlyShortHistory ==
    pc # "load" =>
        /\ \A t \in 1..Len(df) : \A c \in Range(LagColumns \o RollingColumns) : ~IsNaN(df[t][c])
        /\ (NoMissingRaw(raw) /\ InDateWindow(raw)) =>
              /\ LongestReach = 168
              /\ Len(df) = IF Len(raw) <= LongestReach THEN 0 ELSE Len(raw) - LongestReach
              /\ RawPart(df) = SubSeq(SetIndex(raw), LongestReach + 1, Len(raw))

\* C8's case: a clean table in the window, longer than the longest lag, loaded.
C8_Witness ==
    /\ pc # "load"
    /\ NoMissingRaw(raw) /\ InDateWindow(raw)
    /\ Len(raw) > LongestReach + 1
    /\ Len(df) = Len(raw) - LongestReach

-----------------------------------------------------------------------------
(* ensemble_forecast.                                                      *)

\* The largest number of models passed to ensemble_forecast.
MaxModels == 4

\* The horizons (n_periods) tried.
Horizons == {1, 5}

\* What a model's call does: it raises an Exception, or it returns one of
\* these forecasts over the horizon: constant 10, constant 20, or rising.
ConstantForecast(c, h) == [t \in 1..h |-> c]
ForecastOf(outcome, h) ==
    CASE outcome = "ten" -> ConstantForecast(10, h)
      [] outcome = "twenty" -> ConstantForecast(20, h)
      [] outcome = "rising" -> [t \in 1..h |-> 7 + 3 * t]
Outcomes == {"raises", "ten", "twenty", "rising"}

\* A model: whether it has a predict method (an auto_arima model) or only a
\* forecast method (a SARIMAX result), and what the method called does.
Models == [has_predict : BOOLEAN, outcome : Outcomes]

ModelLists == UNION {[1..n -> Models] : n \in 0..MaxModels}

\* Line 160, in tenths: weights = [0.4, 0.3, 0.3]
WeightsSumNotOne == << 4, 3, 2 >>
weights == << 4, 3, 3 >>

\* The denominator of an ensemble value: 10 (the weights are in tenths) times
\* len(forecasts).
Denominator(fs) == 10 * Len(fs)

\* Lines 164-167, one forecast's term at step t over Denominator(fs):
\* weights[i] * forecast for the first len(weights) forecasts (i counted from
\* 1 here), forecast / len(forecasts) for the others.
Term(fs, i, t) ==
    IF i <= Len(weights)
    THEN weights[i] * Len(fs) * fs[i][t]
    ELSE 10 * fs[i][t]

RECURSIVE Accumulate(_, _, _)
\* Lines 161-167: the sum over the first i forecasts, from np.zeros on.
Accumulate(fs, i, t) ==
    IF i = 0 THEN 0 ELSE Accumulate(fs, i - 1, t) + Term(fs, i, t)

\* Lines 158-171: the value returned for the forecasts collected.
Combine(fs) ==
    IF fs # << >>
    THEN [ kind |-> "array",
           num |-> [t \in 1..Len(fs[1]) |-> Accumulate(fs, Len(fs), t)],
           den |-> Denominator(fs) ]
    ELSE None

InitEnsemble ==
    /\ pc = "ens_loop"
    /\ models \in ModelLists
    /\ n_periods \in Horizons
    /\ i_model = 0
    /\ forecasts = << >>
    /\ result = Running
    /\ IdleBuild /\ IdleSelect /\ IdleTune /\ IdleCV

\* Lines 144-153: the next model's call returns a forecast, which is kept.
ModelForecasts ==
    /\ pc = "ens_loop"
    /\ i_model < Len(models)
    /\ models[i_model + 1].outcome # "raises"
    /\ forecasts' = Append(forecasts, ForecastOf(models[i_model + 1].outcome, n_periods))
    /\ i_model' = i_model + 1
    /\ UNCHANGED << pc, models, n_periods, result >>
    /\ UNCHANGED << buildVars, selectVars, tuneVars, cvVars >>

\* The except clause left out: the model's exception leaves the call.
ModelFailsUncaught ==
    /\ pc = "ens_loop"
    /\ i_model < Len(models)
    /\ models[i_model + 1].outcome = "raises"
    /\ pc' = "ens_done"
    /\ result' = Raised
    /\ UNCHANGED << models, n_periods, i_model, forecasts >>
    /\ UNCHANGED << buildVars, selectVars, tuneVars, cvVars >>

\* Lines 145-156: the next model's call raises; the except clause catches the
\* Exception and the loop goes on to the next model.
ModelFails ==
    /\ pc = "ens_loop"
    /\ i_model < Len(models)
    /\ models[i_model + 1].outcome = "raises"
    /\ i_model' = i_model + 1
    /\ UNCHANGED << pc, models, n_periods, forecasts, result >>
    /\ UNCHANGED << buildVars, selectVars, tuneVars, cvVars >>

\* Lines 158-171: after the loop, the weighted sum, or None.
EnsembleReturn ==
    /\ pc = "ens_loop"
    /\ i_model = Len(models)
    /\ result' = Combine(forecasts)
    /\ pc' = "ens_done"
    /\ UNCHANGED << models, n_periods, i_model, forecasts >>
    /\ UNCHANGED << buildVars, selectVars, tuneVars, cvVars >>

NextEnsemble == ModelForecasts \/ ModelFails \/ EnsembleReturn

SpecEnsemble == InitEnsemble /\ [][NextEnsemble]_vars

(* Properties of ensemble_forecast.                                        *)

Failing == {j \in 1..Len(models) : models[j].outcome = "raises"}
Surviving == (1..Len(models)) \ Failing

\* C1: no model's error leaves ensemble_forecast. Whatever models raise, the
\* call never ends with an exception, it can always take its next step until
\* it has returned, and when every model fails it returns None.
C1_NoErrorEscapes ==
    /\ result # Raised
    /\ pc = "ens_loop" => ENABLED NextEnsemble
    /\ (pc = "ens_done" /\ Surviving = {}) => result = None
    /\ (pc = "ens_done" /\ Surviving # {}) => result.kind = "array"

\* C1's case: a call with three or more models, all of which raised, has returned.
C1_Witness ==
    /\ pc = "ens_done"
    /\ Len(models) >= 3
    /\ Surviving = {}
    /\ result = None

\* C2: when exactly two of three models fail, the result is the surviving
\* model's forecast unchanged, at every step.
C2_SurvivorUnchanged ==
    (pc = "ens_done" /\ Len(models) = 3 /\ Cardinality(Failing) = 2) =>
        LET survivor == ForecastOf(models[CHOOSE j \in Surviving : TRUE].outcome, n_periods)
        IN  /\ result.kind = "array"
            /\ Len(result.num) = n_periods
            /\ \A t \in 1..n_periods : result.num[t] = result.den * survivor[t]

\* C3: when all three models return the same constant forecast c, the result
\* is c at every one of the n_periods steps.
C3_ConstantPreserved ==
    \A c \in {10, 20} :
        ( /\ pc = "ens_done"
          /\ Len(models) = 3
          /\ forecasts = [j \in 1..3 |-> ConstantForecast(c, n_periods)] )
        => /\ result.kind = "array"
           /\ Len(result.num) = n_periods
           /\ \A t \in 1..n_periods : result.num[t] = result.den * c

\* C3's case: three forecasts of constant 10 over horizon 5, combined.
C3_Witness ==
    /\ pc = "ens_done"
    /\ n_periods = 5
    /\ forecasts = [j \in 1..3 |-> ConstantForecast(10, 5)]
    /\ result.kind = "array"
    /\ result.num = [t \in 1..5 |-> 10 * result.den]

-----------------------------------------------------------------------------
(* advanced_sarimax_tuning.                                                *)

\* The variants, in the order the code fits them.
Variants == << "exhaustive", "stepwise", "fixed" >>

\* The seasonal periods tried (the parameter's default is 24).
SeasonalPeriods == {12, 24}

\* What a fit does: it raises, or it returns a fitted model. The searches
\* (auto_arima) return a model of an order within their bounds; two such
\* orders stand for them here. The fixed specification is (1,1,1)(1,1,1,m).
FitRaises(variant) ==
    [variant |-> variant, fitted |-> FALSE, order |-> << >>, seasonal_order |-> << >>]
FitOutcomes(variant, m) ==
    {FitRaises(variant)} \cup
    IF variant = "fixed"
    THEN { [variant |-> variant, fitted |-> TRUE,
            order |-> << 1, 1, 1 >>, seasonal_order |-> << 1, 1, 1, m >>] }
    ELSE { [variant |-> variant, fitted |-> TRUE,
            order |-> o, seasonal_order |-> << so[1], so[2], so[3], m >>] :
              o \in { << 0, 0, 0 >>, << 5, 2, 5 >> }, so \in { << 0, 0, 0 >>, << 3, 1, 3 >> } }

InitTune ==
    /\ pc = "fit_exhaustive"
    /\ \E m \in SeasonalPeriods :
          \E f1 \in FitOutcomes(Variants[1], m), f2 \in FitOutcomes(Variants[2], m),
             f3 \in FitOutcomes(Variants[3], m) :
                fits = << f1, f2, f3 >>
    /\ tuned = << >>
    /\ result = Running
    /\ IdleBuild /\ IdleSelect /\ IdleEnsemble /\ IdleCV

\* One fit of advanced_sarimax_tuning: variant v, followed by position next.
\* Nothing catches what the fit raises: it leaves the function, and the models
\* fitted before it are lost with the frame.
FitVariant(v, next) ==
    /\ IF fits[v].fitted
       THEN /\ pc' = next
            /\ tuned' = Append(tuned, fits[v])
            /\ result' = result
       ELSE /\ pc' = "tune_done"
            /\ result' = Raised
            /\ tuned' = tuned
    /\ UNCHANGED fits
    /\ UNCHANGED << buildVars, selectVars, ensembleVars, cvVars >>

\* Lines 97-110: model1 = auto_arima(..., stepwise=False, ...)
FitExhaustive ==
    /\ pc = "fit_exhaustive"
    /\ FitVariant(1, "fit_stepwise")

\* Lines 114-124: model2 = auto_arima(..., stepwise=True, information_criterion='bic', ...)
FitStepwise ==
    /\ pc = "fit_stepwise"
    /\ FitVariant(2, "fit_fixed")

\* Lines 131-136: model3 = SARIMAX(...).fit(disp=False)
FitFixed ==
    /\ pc = "fit_fixed"
    /\ FitVariant(3, "tune_return")

\* Line 138: return model1, model2, model3
TuneReturn ==
    /\ pc = "tune_return"
    /\ result' = [kind |-> "models", models |-> tuned]
    /\ pc' = "tune_done"
    /\ UNCHANGED << fits, tuned >>
    /\ UNCHANGED << buildVars, selectVars, ensembleVars, cvVars >>

NextTune == FitExhaustive \/ FitStepwise \/ FitFixed \/ TuneReturn

SpecTune == InitTune /\ [][NextTune]_vars

(* Properties of advanced_sarimax_tuning.                                  *)

\* C5: the three variants are trained independently. When the fit of one
\* variant raises, the call still ends by returning (not raising), and what it
\* returns holds the models of the two variants whose fit succeeded.
C5_VariantsIndependent ==
    LET failed == {v \in 1..3 : ~fits[v].fitted}
    IN  (pc = "tune_done" /\ Cardinality(failed) = 1) =>
            /\ result.kind = "models"
            /\ Range(result.models) = {fits[v] : v \in (1..3) \ failed}

-----------------------------------------------------------------------------
(* feature_selection_analysis, and main's use of its result.               *)

\* target_col='irradiance'
target_col == "irradiance"

\* The largest number of feature (non-target) columns of a training table.
MaxFeatures == 2

\* The names of the feature columns: the engineered columns but the target.
FeatureNames == SelectSeq(EngineeredColumns, LAMBDA c : c # target_col)

\* Lines 83-85, the thresholds: mi_score > 0.01 (in thousandths),
\* correlation > 0.1 (in hundredths), f_score > 10.
MiThreshold == 10
CorrThreshold == 10
FThreshold == 10

\* x > threshold, which is False for NaN.
Greater(x, threshold) == ~IsNaN(x) /\ x > threshold

\* The correlation as it is: the .abs() of line 68 left out.
NoAbs(x) == x

\* Line 68: .abs()
Abs(x) == IF IsNaN(x) THEN NaN ELSE IF x < 0 THEN -x ELSE x

\* Whether score x comes before score y in a descending sort (NaN last).
Before(x, y) == ~IsNaN(x) /\ (IsNaN(y) \/ x > y)

RECURSIVE SortDescending(_)
\* sort_values(ascending=False) of a sequence of << name, score >> pairs: by
\* insertion, equal scores in their original order.
SortDescending(pairs) ==
    IF pairs = << >> THEN << >>
    ELSE LET sorted == SortDescending(SubSeq(pairs, 1, Len(pairs) - 1))
             last == pairs[Len(pairs)]
             ahead == SelectSeq(sorted, LAMBDA q : ~Before(last[2], q[2]))
             behind == SelectSeq(sorted, LAMBDA q : Before(last[2], q[2]))
         IN  ahead \o << last >> \o behind

\* Line 59: feature_cols = [col for col in train_data.columns if col != target_col]
FeatureCols(cols) == SelectSeq(cols, LAMBDA c : c # target_col)

\* Lines 62-64: mi_df, sorted.
MiDf(cols, sc) ==
    SortDescending([j \in 1..Len(FeatureCols(cols)) |->
                      << FeatureCols(cols)[j], sc.mi[FeatureCols(cols)[j]] >>])

\* Lines 67-68: the target's column of the correlation matrix of
\* feature_cols + [target_col], absolute and sorted. The target's own row
\* (its correlation with itself) is part of it.
TargetCorr(cols, sc) ==
    LET both == FeatureCols(cols) \o << target_col >>
    IN  SortDescending([j \in 1..Len(both) |-> << both[j], Abs(sc.corr[both[j]]) >>])

\* Lines 71-73: f_df, sorted.
FDf(cols, sc) ==
    SortDescending([j \in 1..Len(FeatureCols(cols)) |->
                      << FeatureCols(cols)[j], sc.f[FeatureCols(cols)[j]] >>])

\* Lines 83-85: the names of a ranking whose score exceeds the threshold.
Top(ranking, threshold) ==
    LET kept == SelectSeq(ranking, LAMBDA q : Greater(q[2], threshold))
    IN  [j \in 1..Len(kept) |-> kept[j][1]]

\* Line 88: top_mi_features + top_corr_features + top_f_features
Candidates(cols, sc) ==
    Top(MiDf(cols, sc), MiThreshold)
    \o Top(TargetCorr(cols, sc), CorrThreshold)
    \o Top(FDf(cols, sc), FThreshold)

\* Line 88: list(set(...)): the names once each, in an order the set decides.
ListOfSet(names) ==
    {q \in [1..Cardinality(Range(names)) -> Range(names)] : Range(q) = Range(names)}

\* The scores of one feature column. A constant column has no correlation and
\* no F-statistic (NaN) and no mutual information; another column has scores
\* on either side of each threshold.
FeatureScores ==
    { [mi |-> 0, corr |-> NaN, f |-> NaN] } \cup
    [mi : {MiThreshold, MiThreshold + 1}, corr : {-(CorrThreshold + 1), CorrThreshold},
     f : {FThreshold, FThreshold + 1}]

\* The training tables: their columns (the target among them, at any
\* position) and the scores the three analyses give on their rows. A target
\* that varies has correlation 1 (100 hundredths) with itself; against a
\* constant target nothing has a correlation or an F-statistic.
TablesOf(n, at) ==
    LET features == SubSeq(FeatureNames, 1, n)
        first == IF at > n THEN n + 1 ELSE at
    IN  { [columns |-> SubSeq(features, 1, first - 1) \o << target_col >> \o SubSeq(features, first, n),
           scores |->
             [ mi |-> [c \in Range(features) |-> IF varies THEN each[c].mi ELSE 0],
               corr |-> [c \in Range(features) \cup {target_col} |->
                          IF ~varies THEN NaN ELSE IF c = target_col THEN 100 ELSE each[c].corr],
               f |-> [c \in Range(features) |-> IF varies THEN each[c].f ELSE NaN] ]] :
            varies \in BOOLEAN, each \in [Range(features) -> FeatureScores] }

TrainingTables == UNION {TablesOf(n, at) : n \in 1..MaxFeatures, at \in 1..(MaxFeatures + 1)}

InitSelect ==
    /\ pc = "select"
    /\ \E table \in TrainingTables :
          /\ columns = table.columns
          /\ scores = table.scores
    /\ selected_features = << >>
    /\ rankings = << >>
    /\ exog_columns = << >>
    /\ result = Running
    /\ IdleBuild /\ IdleTune /\ IdleEnsemble /\ IdleCV

\* Lines 56-90: feature_selection_analysis(train).
FeatureSelectionAnalysis ==
    /\ pc = "select"
    /\ selected_features' \in ListOfSet(Candidates(columns, scores))
    /\ rankings' = << MiDf(columns, scores), TargetCorr(columns, scores), FDf(columns, scores) >>
    /\ pc' = "exog"
    /\ UNCHANGED << columns, scores, exog_columns, result >>
    /\ UNCHANGED << buildVars, tuneVars, ensembleVars, cvVars >>

\* main, lines 228-229: train[selected_features] and test[selected_features].
PrepareExog ==
    /\ pc = "exog"
    /\ exog_columns' = selected_features
    /\ pc' = "cross_validate"
    /\ UNCHANGED << columns, scores, selected_features, rankings, result >>
    /\ UNCHANGED << buildVars, tuneVars, ensembleVars, cvVars >>

NextSelect == FeatureSelectionAnalysis \/ PrepareExog

SpecSelect == InitSelect /\ [][NextSelect]_vars

(* Properties of feature_selection_analysis.                               *)

\* The threshold policy for feature column c: mi_score > 0.01 (10 thousandths)
\* or absolute correlation > 0.1 (10 hundredths) or f_score > 10.
PassesPolicy(c) ==
    \/ (~IsNaN(scores.mi[c]) /\ scores.mi[c] > 10)
    \/ (~IsNaN(scores.corr[c]) /\ (scores.corr[c] > 10 \/ scores.corr[c] < -10))
    \/ (~IsNaN(scores.f[c]) /\ scores.f[c] > 10)

\* C7: a non-target column is selected if and only if its mi_score exceeds
\* 0.01 or its absolute correlation exceeds 0.1 or its f_score exceeds 10; so
\* every feature whose absolute correlation exceeds 0.1 is selected; and no
\* name is selected twice.
C7_ThresholdPolicy ==
    pc # "select" =>
        /\ \A c \in Range(FeatureCols(columns)) :
              c \in Range(selected_features) <=> PassesPolicy(c)
        /\ \A j, k \in 1..Len(selected_features) :
              selected_features[j] = selected_features[k] => j = k

\* C7's case: of two features, one passes by its (negative) correlation alone
\* and is selected, the other passes nothing and is not.
C7_Witness ==
    /\ pc # "select"
    /\ \E c, d \in Range(FeatureCols(columns)) :
          /\ scores.mi[c] = 10 /\ scores.f[c] = 10 /\ scores.corr[c] = -11
          /\ c \in Range(selected_features)
          /\ ~PassesPolicy(d)
          /\ d \notin Range(selected_features)

\* C10: the selected features never contain the target column, and neither do
\* the exogenous inputs main builds from them.
C10_TargetNotSelected ==
    /\ pc # "select" => target_col \notin Range(selected_features)
    /\ pc = "cross_validate" => target_col \notin Range(exog_columns)


-----------------------------------------------------------------------------
(* cross_validation_sarimax.                                               *)

\* The numbers of splits tried (the parameter's default is 5).
SplitCounts == {3, 5}

\* TimeSeriesSplit(n_splits).split(data) needs n_splits + 1 <= len(data).
CanSplit(n, splits) == splits + 1 <= n

\* TimeSeriesSplit(n_splits).split(data), fold j of n_splits over n rows: the
\* validation slices are the last n_splits blocks of n // (n_splits + 1) rows,
\* and each fold trains on every row before its validation slice.
TestSize(n, splits) == n \div (splits + 1)
TestStart(n, splits, j) == n - (splits - j + 1) * TestSize(n, splits)
TrainIdx(n, splits, j) == 1..TestStart(n, splits, j)
ValIdx(n, splits, j) ==
    (TestStart(n, splits, j) + 1)..(TestStart(n, splits, j) + TestSize(n, splits))

\* Lines 200-204: the metrics of a forecast that is off by e at every row of
\* the validation slice: mae and rmse are e; r2 is 1 - res/tot, with res and
\* tot the residual and total sums of squares, both times the slice's size.
Metrics(table, rows, e) ==
    LET size == Cardinality(rows)
        lo == CHOOSE r \in rows : \A q \in rows : r <= q
        y == [t \in 1..size |-> table[lo + t - 1][target_col]]
        sum == SumOver(y, 1, size)
        squares == SumOver([t \in 1..size |-> y[t] * y[t]], 1, size)
    IN  [mae |-> e, rmse |-> e, r2 |-> [res |-> size * size * e * e, tot |-> size * squares - sum * sum]]

\* The training tables main passes: the first 80% of an engineered table.
CVTables == {SplitTrain(load_and_preprocess_data(table)) : table \in InputTables}

InitCV ==
    /\ pc = "cv_loop"
    /\ data \in CVTables
    /\ n_splits \in SplitCounts
    /\ k_fold = 0
    /\ cv_scores = << >>
    /\ fold_log = << >>
    /\ result = Running
    /\ IdleBuild /\ IdleSelect /\ IdleTune /\ IdleEnsemble

\* Line 180: the split itself raises (ValueError) when the table has fewer
\* rows than n_splits + 1.
SplitRaises ==
    /\ pc = "cv_loop"
    /\ ~CanSplit(Len(data), n_splits)
    /\ pc' = "cv_done"
    /\ result' = Raised
    /\ UNCHANGED << data, n_splits, k_fold, cv_scores, fold_log >>
    /\ UNCHANGED << buildVars, selectVars, tuneVars, ensembleVars >>

\* Lines 180-204: the next fold is fitted, forecast and scored.
FoldEvaluated ==
    /\ pc = "cv_loop"
    /\ CanSplit(Len(data), n_splits)
    /\ k_fold < n_splits
    /\ \E e \in {0, 1} :
          cv_scores' = Append(cv_scores, Metrics(data, ValIdx(Len(data), n_splits, k_fold + 1), e))
    /\ k_fold' = k_fold + 1
    /\ fold_log' = Append(fold_log, "evaluated")
    /\ UNCHANGED << pc, data, n_splits, result >>
    /\ UNCHANGED << buildVars, selectVars, tuneVars, ensembleVars >>

\* A fold's failure isolated: the fold is skipped and the loop goes on.
FoldFailureIsolated ==
    /\ pc = "cv_loop"
    /\ CanSplit(Len(data), n_splits)
    /\ k_fold < n_splits
    /\ k_fold' = k_fold + 1
    /\ fold_log' = Append(fold_log, "fit_raises")
    /\ UNCHANGED << pc, data, n_splits, cv_scores, result >>
    /\ UNCHANGED << buildVars, selectVars, tuneVars, ensembleVars >>

\* Lines 185-194: the next fold's auto_arima raises. Nothing catches it: the
\* call ends with the exception, and cv_scores is lost with the frame.
FoldFitRaises ==
    /\ pc = "cv_loop"
    /\ CanSplit(Len(data), n_splits)
    /\ k_fold < n_splits
    /\ fold_log' = Append(fold_log, "fit_raises")
    /\ pc' = "cv_done"
    /\ result' = Raised
    /\ UNCHANGED << data, n_splits, k_fold, cv_scores >>
    /\ UNCHANGED << buildVars, selectVars, tuneVars, ensembleVars >>

\* Line 197: the next fold's model.predict raises, with the same effect.
FoldForecastRaises ==
    /\ pc = "cv_loop"
    /\ CanSplit(Len(data), n_splits)
    /\ k_fold < n_splits
    /\ fold_log' = Append(fold_log, "forecast_raises")
    /\ pc' = "cv_done"
    /\ result' = Raised
    /\ UNCHANGED << data, n_splits, k_fold, cv_scores >>
    /\ UNCHANGED << buildVars, selectVars, tuneVars, ensembleVars >>

\* Line 206: return cv_scores
CVReturn ==
    /\ pc = "cv_loop"
    /\ CanSplit(Len(data), n_splits)
    /\ k_fold = n_splits
    /\ result' = [kind |-> "scores", scores |-> cv_scores]
    /\ pc' = "cv_done"
    /\ UNCHANGED << data, n_splits, k_fold, cv_scores, fold_log >>
    /\ UNCHANGED << buildVars, selectVars, tuneVars, ensembleVars >>

NextCV == SplitRaises \/ FoldEvaluated \/ FoldFitRaises \/ FoldForecastRaises \/ CVReturn

SpecCV == InitCV /\ [][NextCV]_vars

(* Properties of cross_validation_sarimax.                                 *)

\* C6: every fold entered is strictly ordered by timestamp, every timestamp of its
\* training rows being before every timestamp of its validation rows (so the
\* latest of the one is before the earliest of the other), and each fold's
\* training rows contain those of the fold before.
C6_FoldsTimeOrdered ==
    \A j \in 1..Len(fold_log) :
        /\ \A a \in TrainIdx(Len(data), n_splits, j), b \in ValIdx(Len(data), n_splits, j) :
              TsLess(data[a]["date"], data[b]["date"])
        /\ j < n_splits =>
              TrainIdx(Len(data), n_splits, j) \subseteq TrainIdx(Len(data), n_splits, j + 1)

\* C9: folds are entered one at a time, each one's validation rows after the
\* rows of the one before, and a fold whose fit or
\* forecast raises is the last one entered: the call has then ended with the
\* exception, no later fold is evaluated, and the scores of the folds before
\* it are not returned.
C9_FoldErrorAborts ==
    /\ Len(fold_log) \in {k_fold, k_fold + 1}
    /\ \A j \in 1..Len(fold_log) :
          fold_log[j] # "evaluated" =>
              /\ j = Len(fold_log)
              /\ pc = "cv_done"
              /\ result = Raised
              /\ k_fold = j - 1
    /\ \A j \in 2..Len(fold_log) :
          \A a \in ValIdx(Len(data), n_splits, j - 1), b \in ValIdx(Len(data), n_splits, j) : a < b
    /\ result.kind = "scores" => Len(result.scores) = n_splits

\* C9's case: a fold other than the first and the last raised, after scores
\* were collected, and the call ended with the exception.
C9_Witness ==
    /\ pc = "cv_done"
    /\ result = Raised
    /\ Len(cv_scores) >= 1
    /\ Len(fold_log) = Len(cv_scores) + 1
    /\ Len(fold_log) < n_splits
    /\ fold_log[Len(fold_log)] = "forecast_raises"

=============================================================================
